---- MODULE Spec2Model ----
(***************************************************************************)
(* The GDP ETL notebook (etl_project_gdp.ipynb): extract, transform,       *)
(* load_to_csv, connect_database, load_to_db, run_query and the six stage  *)
(* cells that call them, as a state machine over the kernel's names, the   *)
(* CSV file, the MySQL table and the log file.                             *)
(*                                                                         *)
(* Text is a sequence of characters, each character a one-character        *)
(* string; the em dash U+2014 is the character EmDash.                     *)
(***************************************************************************)
EXTENDS Integers, Sequences, FiniteSets, TLC

VARIABLES
    pc,              \* the stage cell that runs next
    run,             \* how many times the notebook has been started
    webpage,         \* the document the last requests.get returned
    heap,            \* the DataFrame objects allocated so far
    df,              \* the kernel name df: an index into heap, 0 = unbound
    quey_statement,  \* the kernel name quey_statement, "" = unbound
    csv,             \* the file at CSV_PATH
    store,           \* the MySQL server: schema, table, committed rows
    inserted,        \* how many INSERTs the last load_to_db executed
    log,             \* the lines of the file at LOG_PATH (without timestamps)
    escaped          \* the exception that left a stage cell, "" = none

vars ==
    <<pc, run, webpage, heap, df, quey_statement, csv, store, inserted, log, escaped>>

(***************************************************************************)
(* Bounds of the model.                                                    *)
(***************************************************************************)
MaxRows == 2
MaxCells == 3
MaxLen == 3
MaxRuns == 2
MaxDocRows == 3

(***************************************************************************)
(* Program constants.                                                      *)
(***************************************************************************)
TABLE_ATTRIBS == <<"Country", "GDP_USD_millions">>
DB_NAME == "World_Economies"
TABLE_NAME == "Countries_by_GDP"
TargetTable == 3
GdpCell == 3
Divisor == 1000
Decimals == 2
Mantissa == 53
Single == 24

EmDash == "emdash"
Digits == <<"0", "1", "2", "3", "4", "5", "6", "7", "8", "9">>
DigitChars == {Digits[i] : i \in 1..10}

(***************************************************************************)
(* The parsed document: BeautifulSoup nodes.  A NavigableString is a node  *)
(* named "#text" carrying its characters; a Tag carries its children.      *)
(***************************************************************************)
Str(s) == [name |-> "#text", text |-> s, contents |-> <<>>]
Tag(n, kids) == [name |-> n, text |-> <<>>, contents |-> kids]
NoneNode == [name |-> "None", text |-> <<>>, contents |-> <<>>]

IsStr(node) == node.name = "#text"

\* Tag.find(name): the first descendant tag of that name in document order.
RECURSIVE Find(_, _)
Find(kids, n) ==
    IF kids = <<>> THEN NoneNode
    ELSE LET k == Head(kids)
             below == IF IsStr(k) THEN NoneNode ELSE Find(k.contents, n)
         IN  IF k.name = n THEN k
             ELSE IF below # NoneNode THEN below
             ELSE Find(Tail(kids), n)

\* x in tag: Tag.__contains__ compares x with each child of the tag.
Contains(cell, s) == \E i \in 1..Len(cell.contents) : cell.contents[i] = Str(s)

(***************************************************************************)
(* pandas DataFrames.  A DataFrame has its column names, one dtype per     *)
(* column and its rows; a value is a Python object (a node of the          *)
(* document) or a float64.  A float64 that np.round produced is the double *)
(* nearest to f / 100 and is held as the integer f (hundredths).           *)
(***************************************************************************)
Obj(node) == [dtype |-> "object", obj |-> node, f |-> 0]
Flt(h) == [dtype |-> "float64", obj |-> NoneNode, f |-> h]

\* pd.DataFrame(columns=table_attribs)
EmptyFrame(attribs) ==
    [columns |-> attribs,
     dtypes |-> [i \in 1..Len(attribs) |-> "object"],
     values |-> <<>>]

\* the position of a column name, 0 when the frame has no such column
ColumnIndex(frame, n) ==
    IF \E i \in 1..Len(frame.columns) : frame.columns[i] = n
    THEN CHOOSE i \in 1..Len(frame.columns) : frame.columns[i] = n
    ELSE 0

\* a concat with its arguments swapped: the new record goes first
ConcatFront(frame, record) ==
    [frame EXCEPT !.values = <<record>> \o frame.values]

\* pd.concat([df, df1], ignore_index=True) of a one-row frame of objects
Concat(frame, record) ==
    [frame EXCEPT !.values = Append(frame.values, record)]

(***************************************************************************)
(* extract.  A document is what requests.get returned: either the request  *)
(* raised, or markup whose tbody elements each hold rows, a row being the  *)
(* list of its td cells (row.find_all('td')).                              *)
(***************************************************************************)
Raised(e, frame) == [err |-> e, frame |-> frame]
Returned(frame) == [err |-> "", frame |-> frame]

\* the loop of extract over the rows of the selected table
RECURSIVE ExtractRows(_, _)
ExtractRows(rows, frame) ==
    IF rows = <<>> THEN Returned(frame)
    ELSE LET col == Head(rows)
             a == Find(col[1].contents, "a")
         IN  IF Len(col) = 0 THEN ExtractRows(Tail(rows), frame)
             ELSE IF a = NoneNode THEN ExtractRows(Tail(rows), frame)
             ELSE IF Len(col) < GdpCell THEN Raised("IndexError", frame)
             ELSE IF Contains(col[GdpCell], <<EmDash>>)
                  THEN ExtractRows(Tail(rows), frame)
             ELSE IF a.contents = <<>> THEN Raised("IndexError", frame)
             ELSE IF col[GdpCell].contents = <<>> THEN Raised("IndexError", frame)
             ELSE ExtractRows(Tail(rows),
                      Concat(frame, <<Obj(a.contents[1]),
                                      Obj(col[GdpCell].contents[1])>>))

extract(page, table_attribs) ==
    IF page.status # "ok" THEN Raised("ConnectionError", EmptyFrame(table_attribs))
    ELSE IF Len(page.tbodies) < TargetTable
         THEN Raised("IndexError", EmptyFrame(table_attribs))
    ELSE ExtractRows(page.tbodies[TargetTable], EmptyFrame(table_attribs))

(***************************************************************************)
(* IEEE 754 binary64 arithmetic, as x/1000 and np.round(.., 2) use it.     *)
(* A natural number is its limbs in base 2^15, least significant first,    *)
(* the highest limb not 0; a non-negative double is m * 2^e with at most   *)
(* Mantissa bits in m.                                                     *)
(***************************************************************************)
LimbBits == 15
Base == 2^LimbBits

RECURSIVE BigOfNat(_)
BigOfNat(n) == IF n = 0 THEN <<>> ELSE <<n % Base>> \o BigOfNat(n \div Base)

RECURSIVE NatOfBig(_)
NatOfBig(b) == IF b = <<>> THEN 0 ELSE Head(b) + Base * NatOfBig(Tail(b))

RECURSIVE Strip(_)
Strip(b) ==
    IF b = <<>> THEN b
    ELSE IF b[Len(b)] = 0 THEN Strip(SubSeq(b, 1, Len(b) - 1))
    ELSE b

\* the number of bits of a natural below 2^30
BitLen(n) == CHOOSE k \in 0..30 : n < 2^k /\ (k = 0 \/ n >= 2^(k - 1))
BigBitLen(b) ==
    IF b = <<>> THEN 0 ELSE LimbBits * (Len(b) - 1) + BitLen(b[Len(b)])

\* b * c + carry for a small c
RECURSIVE BigMul(_, _, _)
BigMul(b, c, carry) ==
    IF b = <<>> THEN BigOfNat(carry)
    ELSE LET t == Head(b) * c + carry
         IN  <<t % Base>> \o BigMul(Tail(b), c, t \div Base)

\* long division of the limbs msl (most significant first) by a small d
RECURSIVE BigDiv(_, _, _, _)
BigDiv(msl, d, rem, q) ==
    IF msl = <<>> THEN [q |-> Strip(q), r |-> rem]
    ELSE LET t == rem * Base + Head(msl)
         IN  BigDiv(Tail(msl), d, t % d, <<t \div d>> \o q)

Reverse(s) == [i \in 1..Len(s) |-> s[Len(s) + 1 - i]]
Zeros(k) == [i \in 1..k |-> 0]

\* b * 2^k
ShiftLeft(b, k) ==
    IF b = <<>> THEN b
    ELSE Zeros(k \div LimbBits) \o BigMul(b, 2^(k % LimbBits), 0)

\* floor(b / 2^k), and whether a nonzero remainder was dropped
ShiftRight(b, k) ==
    LET w == IF k \div LimbBits > Len(b) THEN Len(b) ELSE k \div LimbBits
        res == BigDiv(Reverse(SubSeq(b, w + 1, Len(b))), 2^(k % LimbBits), 0, <<>>)
    IN  [q |-> IF k \div LimbBits > Len(b) THEN <<>> ELSE res.q,
         sticky |-> res.r # 0 \/ \E i \in 1..w : b[i] # 0]

\* b / 2^k (k >= 1, plus a nonzero remainder when sticky) to the nearest
\* integer, ties to even
RoundHalfEven(b, k, sticky) ==
    LET sr == ShiftRight(b, k - 1)
        guard == sr.q # <<>> /\ sr.q[1] % 2 = 1
        q == ShiftRight(sr.q, 1).q
        odd == q # <<>> /\ q[1] % 2 = 1
    IN  IF guard /\ (sr.sticky \/ sticky \/ odd)
        THEN BigMul(q, 1, 1)
        ELSE q

\* round b * 2^e (plus a nonzero remainder when sticky) to p significant bits
RoundToBits(b, sticky, e, p) ==
    IF BigBitLen(b) <= p THEN [m |-> b, e |-> e]
    ELSE LET t == BigBitLen(b) - p
             m == RoundHalfEven(b, t, sticky)
         IN  IF BigBitLen(m) > p
             THEN [m |-> ShiftRight(m, 1).q, e |-> e + t + 1]
             ELSE [m |-> m, e |-> e + t]

\* round b * 2^e (plus a nonzero remainder when sticky) to a double
RoundNearestEven(b, sticky, e) == RoundToBits(b, sticky, e, Mantissa)

\* float(n) for a natural n
FloatOfNat(n) == [m |-> BigOfNat(n), e |-> 0]

\* x / d
FloatDiv(x, d) ==
    IF x.m = <<>> THEN x
    ELSE LET s == Mantissa + 2 + BitLen(d) - BigBitLen(x.m)
             res == BigDiv(Reverse(ShiftLeft(x.m, s)), d, 0, <<>>)
         IN  RoundNearestEven(res.q, res.r # 0, x.e - s)

\* x * c
FloatMul(x, c) == RoundNearestEven(BigMul(x.m, c, 0), FALSE, x.e)

\* np.rint: the nearest integer, ties to even
Rint(x) ==
    IF x.e >= 0 THEN NatOfBig(x.m) * 2^(x.e)
    ELSE NatOfBig(RoundHalfEven(x.m, -(x.e), FALSE))

\* a rounding that drops the digits beyond the hundredths
RoundTruncate(x, decimals) ==
    LET y == FloatMul(x, 10^decimals)
    IN  IF y.e >= 0 THEN NatOfBig(y.m) * 2^(y.e)
        ELSE NatOfBig(ShiftRight(y.m, -(y.e)).q)

\* np.round(x, 2): multiply by 10^2, rint, divide by 10^2; the hundredths
Round(x, decimals) == Rint(FloatMul(x, 10^decimals))

(***************************************************************************)
(* transform.                                                              *)
(***************************************************************************)
\* "".join(x.split(','))
RemoveCommas(s) == SelectSeq(s, LAMBDA c : c # ",")

\* the strings of the model's alphabet that float() accepts
IsDecimal(s) == s # <<>> /\ \A i \in 1..Len(s) : s[i] \in DigitChars

DigitValue(c) == (CHOOSE i \in 1..10 : Digits[i] = c) - 1

RECURSIVE NatOfDigits(_)
NatOfDigits(s) ==
    IF s = <<>> THEN 0
    ELSE 10 * NatOfDigits(SubSeq(s, 1, Len(s) - 1)) + DigitValue(s[Len(s)])

\* float("".join(x.split(','))) for one element of the column: the error it
\* raises, "" when it returns
FloatError(x) ==
    IF x.dtype # "object" THEN "AttributeError"
    ELSE IF ~IsStr(x.obj) THEN "TypeError"
    ELSE IF ~IsDecimal(RemoveCommas(x.obj.text)) THEN "ValueError"
    ELSE ""

\* np.round(float("".join(x.split(','))) / 1000, 2), in hundredths
Billions(x) ==
    Round(FloatDiv(FloatOfNat(NatOfDigits(RemoveCommas(x.obj.text))), Divisor),
          Decimals)

\* df[name] = list: the column's values and its dtype are replaced in place
SetColumn(frame, c, list) ==
    [frame EXCEPT !.dtypes[c] = "float64",
                  !.values = [i \in 1..Len(frame.values) |->
                                 [frame.values[i] EXCEPT ![c] = list[i]]]]

\* df.rename(columns={old: new}): a new frame
Rename(frame, old, new) ==
    [frame EXCEPT !.columns = [i \in 1..Len(frame.columns) |->
                                  IF frame.columns[i] = old THEN new
                                  ELSE frame.columns[i]]]

\* a transform that converts the column cell by cell in the frame it was
\* passed: the cells before a bad one are converted when it raises
transformInPlace(frame) ==
    LET c == ColumnIndex(frame, "GDP_USD_millions")
        GDP_list == [i \in 1..Len(frame.values) |-> frame.values[i][c]]
        bad == {i \in 1..Len(GDP_list) : FloatError(GDP_list[i]) # ""}
        first == CHOOSE i \in bad : \A j \in bad : i <= j
        rounded == [i \in 1..Len(GDP_list) |-> Flt(Billions(GDP_list[i]))]
        updated == SetColumn(frame, c, rounded)
        partly == [frame EXCEPT !.values =
                      [i \in 1..Len(frame.values) |->
                          IF i < first
                          THEN [frame.values[i] EXCEPT ![c] = Flt(Billions(GDP_list[i]))]
                          ELSE frame.values[i]]]
    IN  IF c = 0 THEN [err |-> "KeyError", arg |-> frame, frame |-> frame]
        ELSE IF bad # {}
             THEN [err |-> FloatError(GDP_list[first]), arg |-> partly, frame |-> frame]
        ELSE [err |-> "", arg |-> updated,
              frame |-> Rename(updated, "GDP_USD_millions", "GDP_USD_billions")]

\* transform(df): the error raised ("" = none), the object passed as it is
\* after the call, and the object returned
transform(frame) ==
    LET c == ColumnIndex(frame, "GDP_USD_millions")
        GDP_list == [i \in 1..Len(frame.values) |-> frame.values[i][c]]
        bad == {i \in 1..Len(GDP_list) : FloatError(GDP_list[i]) # ""}
        first == CHOOSE i \in bad : \A j \in bad : i <= j
        rounded == [i \in 1..Len(GDP_list) |-> Flt(Billions(GDP_list[i]))]
        updated == SetColumn(frame, c, rounded)
    IN  IF c = 0 THEN [err |-> "KeyError", arg |-> frame, frame |-> frame]
        ELSE IF bad # {}
             THEN [err |-> FloatError(GDP_list[first]), arg |-> frame, frame |-> frame]
        ELSE [err |-> "", arg |-> updated,
              frame |-> Rename(updated, "GDP_USD_millions", "GDP_USD_billions")]

(***************************************************************************)
(* load_to_csv: DataFrame.to_csv writes a header and one line per row, the  *)
(* row's position first.                                                   *)
(***************************************************************************)
RECURSIVE NatDigits(_)
NatDigits(n) ==
    IF n < 10 THEN <<Digits[n + 1]>>
    ELSE NatDigits(n \div 10) \o <<Digits[(n % 10) + 1]>>

\* repr of the double nearest to h / 100
FloatRepr(h) ==
    NatDigits(h \div 100) \o <<".">> \o
    (IF h % 10 = 0 THEN <<Digits[((h \div 10) % 10) + 1]>>
     ELSE <<Digits[((h \div 10) % 10) + 1], Digits[(h % 10) + 1]>>)

\* str of a node: the text of a string, the markup of a tag
RECURSIVE Markup(_, _)
Markup(node, depth) ==
    IF IsStr(node) \/ depth = 0 THEN node.text
    ELSE <<"<", node.name, ">">>
         \o (IF node.contents = <<>> THEN <<>>
             ELSE Markup(node.contents[1], depth - 1))
         \o <<"</", node.name, ">">>

Field(x) == IF x.dtype = "object" THEN Markup(x.obj, 2) ELSE FloatRepr(x.f)

to_csv(frame) ==
    [exists |-> TRUE,
     header |-> <<"">> \o frame.columns,
     lines |-> [i \in 1..Len(frame.values) |->
                   <<NatDigits(i - 1)>> \o
                   [c \in 1..Len(frame.columns) |-> Field(frame.values[i][c])]]]

NoFile == [exists |-> FALSE, header |-> <<>>, lines |-> <<>>]

(***************************************************************************)
(* The MySQL server.  DDL commits at once; an INSERT belongs to the         *)
(* connection's transaction (Connector/Python opens connections with       *)
(* autocommit off) and reaches the table at db.commit().  A connection     *)
(* dropped before its commit loses its inserts on a transactional engine   *)
(* (InnoDB) and keeps them on a non-transactional one (MyISAM).            *)
(***************************************************************************)
Engines == {"InnoDB", "MyISAM"}

NoStore(engine) ==
    [engine |-> engine, schema |-> FALSE, table |-> FALSE,
     columns |-> <<>>, rows |-> <<>>]

\* the column list of CREATE TABLE: id, then one column per DataFrame column
ColumnsSql(frame) ==
    <<[name |-> "id", type |-> "INT AUTO_INCREMENT PRIMARY KEY"]>> \o
    [i \in 1..Len(frame.columns) |->
        [name |-> frame.columns[i],
         type |-> IF frame.dtypes[i] = "object" THEN "VARCHAR(255)" ELSE "FLOAT"]]

ColumnNames(columns) == {columns[i].name : i \in 1..Len(columns)}
ColumnType(columns, n) ==
    columns[CHOOSE i \in 1..Len(columns) : columns[i].name = n].type

\* the double h / 100 stored in a FLOAT (single precision) column
Float32(h) ==
    LET d == FloatDiv(FloatOfNat(h), 10^Decimals)
    IN  RoundToBits(d.m, FALSE, d.e, Single)

Null == [sql |-> "NULL", text |-> <<>>, m |-> <<>>, e |-> 0]
Text(s) == [sql |-> "VARCHAR", text |-> s, m |-> <<>>, e |-> 0]
Real(x) == [sql |-> "FLOAT", text |-> <<>>, m |-> x.m, e |-> x.e]

\* the error of cursor.execute(DML, values) for one record, "" = none
InsertError(frame, record, columns) ==
    IF \E c \in 1..Len(record) : record[c].dtype = "object" /\ ~IsStr(record[c].obj)
    THEN "ProgrammingError"
    ELSE IF \E c \in 1..Len(frame.columns) : frame.columns[c] \notin ColumnNames(columns)
    THEN "ProgrammingError"
    ELSE IF \E c \in 1..Len(record) :
                /\ ColumnType(columns, frame.columns[c]) = "FLOAT"
                /\ record[c].dtype = "object"
                /\ ~IsDecimal(record[c].obj.text)
    THEN "DataError"
    ELSE ""

\* what a value becomes in a column of the given type
StoredValue(x, type) ==
    IF type = "FLOAT"
    THEN (IF x.dtype = "float64" THEN Real(Float32(x.f))
          ELSE IF IsDecimal(x.obj.text)
          THEN Real(RoundToBits(BigOfNat(NatOfDigits(x.obj.text)), FALSE, 0, Single))
          ELSE Null)
    ELSE (IF x.dtype = "float64" THEN Text(FloatRepr(x.f)) ELSE Text(x.obj.text))

\* the row an INSERT of one record adds (the id is the server's)
StoredRow(frame, record, columns) ==
    [k \in 1..(Len(columns) - 1) |->
        LET n == columns[k + 1].name
            c == ColumnIndex(frame, n)
        IN  IF c = 0 THEN Null ELSE StoredValue(record[c], columns[k + 1].type)]

\* a load that drops the table and creates it again
CreateOrReplace(st, frame) ==
    [st EXCEPT !.schema = TRUE, !.table = TRUE,
               !.columns = ColumnsSql(frame), !.rows = <<>>]

\* CREATE SCHEMA IF NOT EXISTS, CREATE TABLE IF NOT EXISTS
CreateIfNotExists(st, frame) ==
    [st EXCEPT !.schema = TRUE, !.table = TRUE,
               !.columns = IF st.table THEN st.columns ELSE ColumnsSql(frame)]

\* a commit that skips the rows the table already holds
CommitIgnore(rows, batch) ==
    rows \o SelectSeq(batch, LAMBDA r : \A i \in 1..Len(rows) : rows[i] # r)

\* db.commit() after the loop: the rows of the batch join the table
Commit(rows, batch) == rows \o batch

\* a connection with autocommit on: every INSERT is committed as it runs
AbandonedAutocommit(engine, rows, done) == rows \o done

\* the inserts of a connection that never reached db.commit()
Abandoned(engine, rows, done) ==
    IF engine = "InnoDB" THEN rows ELSE rows \o done

\* load_to_db(df) against the server st; outage is where the server fails:
\* 0 at connect, i at the i-th INSERT, beyond the records nowhere
load_to_db(frame, st, outage) ==
    LET column_names == frame.columns
        data_records == frame.values
        created == CreateIfNotExists(st, frame)
        failing == {i \in 1..Len(data_records) :
                       \/ i = outage
                       \/ InsertError(frame, data_records[i], created.columns) # ""}
        first == CHOOSE i \in failing : \A j \in failing : i <= j
        batch == [i \in 1..Len(data_records) |->
                     StoredRow(frame, data_records[i], created.columns)]
        firstError == InsertError(frame, data_records[first], created.columns)
    IN  IF outage = 0
        THEN [err |-> "InterfaceError", store |-> st, inserted |-> 0]
        ELSE IF failing = {}
        THEN [err |-> "",
              store |-> [created EXCEPT !.rows = Commit(st.rows, batch)],
              inserted |-> Len(data_records)]
        ELSE [err |-> IF firstError # "" THEN firstError ELSE "OperationalError",
              store |-> [created EXCEPT
                            !.rows = Abandoned(st.engine, st.rows,
                                               SubSeq(batch, 1, first - 1))],
              inserted |-> first - 1]

\* run_query(query_statement): the error raised, "" when it returns the statement
run_query(st, up) ==
    IF ~up THEN "InterfaceError"
    ELSE IF ~st.schema THEN "ProgrammingError"
    ELSE IF ~st.table THEN "DatabaseError"
    ELSE ""

Statement == "SELECT * FROM Countries_by_GDP"

(***************************************************************************)
(* The documents requests.get may return.                                  *)
(***************************************************************************)
Td(kids) == Tag("td", kids)
Link(country) == Td(<<Tag("a", <<Str(country)>>)>>)

NoPage == [status |-> "none", tbodies |-> <<>>]
FetchError == [status |-> "error", tbodies |-> <<>>]
\* markup with n tbody elements, the rows in the last of them
Page(n, rows) ==
    [status |-> "ok", tbodies |-> [i \in 1..n |-> IF i = n THEN rows ELSE <<>>]]

Plain == <<"1", ",", "5", "0", "0">>
Marker == <<"n", "/", "a">>
Cells ==
    {Link(<<"A">>), Td(<<Str(Plain)>>), Td(<<Str(<<EmDash>>)>>), Td(<<>>),
     Td(<<Str(Marker)>>), Td(<<Tag("a", <<>>)>>), Td(<<Tag("span", <<Str(<<EmDash>>)>>)>>)}

SeqsUpTo(S, n) == UNION {[1..k -> S] : k \in 0..n}

\* every document of at most maxRows rows of at most maxCells cells
Pages(maxRows, maxCells) ==
    {FetchError}
    \cup {Page(n, <<>>) : n \in 0..(TargetTable - 1)}
    \cup {Page(TargetTable, rows) : rows \in SeqsUpTo(SeqsUpTo(Cells, maxCells), maxRows)}

\* a row of the GDP table: the linked country, the region, the estimate
GdpRow(country, gdp) == <<Link(country), Td(<<Str(<<"r">>)>>), Td(<<gdp>>)>>

Big == <<"2", "6", ",", "8", "5", "4", ",", "5", "9", "9">>
Tie == <<"5", "4", "5">>
SamplePages ==
    {FetchError,
     Page(TargetTable, <<>>),
     Page(TargetTable, <<GdpRow(<<"A">>, Str(Big)), GdpRow(<<"B">>, Str(Tie))>>),
     Page(TargetTable, <<GdpRow(<<"A">>, Str(Plain)), GdpRow(<<"B">>, Str(Marker))>>),
     Page(TargetTable, <<GdpRow(<<"A">>, Str(Plain)),
                         GdpRow(<<"B">>, Tag("span", <<Str(Plain)>>))>>)}

\* the GDP texts of digits and separators
GdpTexts(maxLen) == (SeqsUpTo(DigitChars \cup {","}, maxLen) \ {<<>>}) \cup {Big}

\* the rows of a GDP table: a country with an estimate, with the placeholder
\* or with a marker, a row whose first cell has no link, a row without cells
DocRows ==
    {GdpRow(c, Str(g)) : c \in {<<"A">>, <<"B">>}, g \in {Plain, Tie, <<EmDash>>, Marker}}
    \cup {<<Td(<<Str(<<"r">>)>>), Td(<<Str(<<"r">>)>>), Td(<<Str(Plain)>>)>>, <<>>}

\* every document of at most maxRows such rows
Documents(maxRows) == {Page(TargetTable, rows) : rows \in SeqsUpTo(DocRows, maxRows)}

(***************************************************************************)
(* The stage cells.  A log line is its message and what follows the colon. *)
(***************************************************************************)
log_progress(lines, message, detail) == Append(lines, <<message, detail>>)

ExtractCell(pages) ==
    /\ pc = "extract"
    /\ \E page \in pages :
          \E r \in {extract(page, TABLE_ATTRIBS)} :
              /\ webpage' = page
              /\ IF r.err = ""
                 THEN /\ heap' = Append(heap, r.frame)
                      /\ df' = Len(heap) + 1
                      /\ log' = log_progress(log, "Data extracted successfuly", "")
                 ELSE /\ UNCHANGED <<heap, df>>
                      /\ log' = log_progress(log, "Error while extracting data", r.err)
    /\ pc' = "transform"
    /\ UNCHANGED <<run, quey_statement, csv, store, inserted, escaped>>

ExtractAny == ExtractCell(Pages(MaxRows, MaxCells))
ExtractSample == ExtractCell(SamplePages)
ExtractDocument == ExtractCell(Documents(MaxDocRows))

\* a transform cell without its except clause
TransformCellUncaught ==
    /\ pc = "transform"
    /\ IF df = 0
       THEN /\ escaped' = "NameError"
            /\ pc' = "done"
            /\ UNCHANGED <<heap, df, log>>
       ELSE \E r \in {transform(heap[df])} :
                IF r.err = ""
                THEN /\ heap' = Append([heap EXCEPT ![df] = r.arg], r.frame)
                     /\ df' = Len(heap) + 1
                     /\ log' = log_progress(log, "Data transformed successfuly", "")
                     /\ pc' = "csv"
                     /\ UNCHANGED escaped
                ELSE /\ escaped' = r.err
                     /\ pc' = "done"
                     /\ UNCHANGED <<heap, df, log>>
    /\ UNCHANGED <<run, webpage, quey_statement, csv, store, inserted>>

TransformCell ==
    /\ pc = "transform"
    /\ IF df = 0
       THEN /\ log' = log_progress(log, "Error while transforming data", "NameError")
            /\ UNCHANGED <<heap, df>>
       ELSE \E r \in {transform(heap[df])} :
                IF r.err = ""
                THEN /\ heap' = Append([heap EXCEPT ![df] = r.arg], r.frame)
                     /\ df' = Len(heap) + 1
                     /\ log' = log_progress(log, "Data transformed successfuly", "")
                ELSE /\ heap' = [heap EXCEPT ![df] = r.arg]
                     /\ UNCHANGED df
                     /\ log' = log_progress(log, "Error while transforming data", r.err)
    /\ pc' = "csv"
    /\ UNCHANGED <<run, webpage, quey_statement, csv, store, inserted, escaped>>

\* a CSV cell that opens the file for appending
CsvCellAppend ==
    /\ pc = "csv"
    /\ IF df = 0
       THEN /\ log' = log_progress(log, "Error while loading data to CSV", "NameError")
            /\ UNCHANGED csv
       ELSE \E writable \in BOOLEAN :
               IF writable
               THEN /\ csv' = IF csv.exists
                               THEN [csv EXCEPT !.lines = @ \o <<to_csv(heap[df]).header>>
                                                            \o to_csv(heap[df]).lines]
                               ELSE to_csv(heap[df])
                    /\ log' = log_progress(log, "Data loaded to CSV successfuly", "")
               ELSE /\ UNCHANGED csv
                    /\ log' = log_progress(log, "Error while loading data to CSV", "OSError")
    /\ pc' = "connect"
    /\ UNCHANGED <<run, webpage, heap, df, quey_statement, store, inserted, escaped>>

CsvCell ==
    /\ pc = "csv"
    /\ IF df = 0
       THEN /\ log' = log_progress(log, "Error while loading data to CSV", "NameError")
            /\ UNCHANGED csv
       ELSE \E writable \in BOOLEAN :
               IF writable
               THEN /\ csv' = to_csv(heap[df])
                    /\ log' = log_progress(log, "Data loaded to CSV successfuly", "")
               ELSE /\ UNCHANGED csv
                    /\ log' = log_progress(log, "Error while loading data to CSV", "OSError")
    /\ pc' = "connect"
    /\ UNCHANGED <<run, webpage, heap, df, quey_statement, store, inserted, escaped>>

ConnectCell ==
    /\ pc = "connect"
    /\ \E up \in BOOLEAN :
          log' = IF up THEN log_progress(log, "Database successfuly connected", "")
                 ELSE log_progress(log, "Error while connecting to DB", "InterfaceError")
    /\ pc' = "load_to_db"
    /\ UNCHANGED <<run, webpage, heap, df, quey_statement, csv, store, inserted, escaped>>

LoadDbCell ==
    /\ pc = "load_to_db"
    /\ IF df = 0
       THEN /\ log' = log_progress(log, "Error while loading data to DB", "NameError")
            /\ UNCHANGED <<store, inserted>>
       ELSE \E outage \in 0..(Len(heap[df].values) + 1) :
               \E r \in {load_to_db(heap[df], store, outage)} :
                   /\ store' = r.store
                   /\ inserted' = r.inserted
                   /\ log' = IF r.err = ""
                             THEN log_progress(log, "Data loaded to DB successfuly", "")
                             ELSE log_progress(log, "Error while loading data to DB", r.err)
    /\ pc' = "query"
    /\ UNCHANGED <<run, webpage, heap, df, quey_statement, csv, escaped>>

QueryCell ==
    /\ pc = "query"
    /\ \E up \in BOOLEAN :
          LET err == run_query(store, up)
              failed == log_progress(log, "Error while querying data", err)
          IN  IF err = ""
              THEN /\ quey_statement' = Statement
                   /\ log' = log_progress(log, "Query made", Statement)
                   /\ UNCHANGED escaped
              ELSE IF quey_statement = ""
              THEN /\ log' = failed
                   /\ escaped' = "NameError"
                   /\ UNCHANGED quey_statement
              ELSE /\ log' = log_progress(failed, "Query made", quey_statement)
                   /\ UNCHANGED <<quey_statement, escaped>>
    /\ pc' = "done"
    /\ UNCHANGED <<run, webpage, heap, df, csv, store, inserted>>

\* the notebook is run again in the same kernel
RunAll ==
    /\ pc = "done"
    /\ run < MaxRuns
    /\ pc' = "extract"
    /\ run' = run + 1
    /\ escaped' = ""
    /\ UNCHANGED <<webpage, heap, df, quey_statement, csv, store, inserted, log>>

Init ==
    /\ pc = "extract"
    /\ run = 1
    /\ webpage = NoPage
    /\ heap = <<>>
    /\ df = 0
    /\ quey_statement = ""
    /\ csv = NoFile
    /\ store \in {NoStore(e) : e \in Engines}
    /\ inserted = 0
    /\ log = <<>>
    /\ escaped = ""

Next ==
    \/ ExtractSample
    \/ TransformCell
    \/ CsvCell
    \/ ConnectCell
    \/ LoadDbCell
    \/ QueryCell
    \/ RunAll

Spec == Init /\ [][Next]_vars

\* extract alone, over every document of the bounds
NextExtract == ExtractAny
SpecExtract == Init /\ [][NextExtract]_vars

\* transform alone, from the state the extract cell leaves for one GDP row
InitTransform ==
    /\ pc = "transform"
    /\ run = 1
    /\ \E s \in GdpTexts(MaxLen) :
          /\ webpage = Page(TargetTable, <<GdpRow(<<"A">>, Str(s))>>)
          /\ heap = <<extract(webpage, TABLE_ATTRIBS).frame>>
    /\ df = 1
    /\ quey_statement = ""
    /\ csv = NoFile
    /\ store \in {NoStore(e) : e \in Engines}
    /\ inserted = 0
    /\ log = log_progress(<<>>, "Data extracted successfuly", "")
    /\ escaped = ""

NextTransform == TransformCell
SpecTransform == InitTransform /\ [][NextTransform]_vars

\* extract, then transform, over every document of GDP rows of the bounds
NextPipeline == ExtractDocument \/ TransformCell
SpecPipeline == Init /\ [][NextPipeline]_vars

(***************************************************************************)
(* The properties.                                                         *)
(***************************************************************************)
Last(s) == s[Len(s)]
IsPrefix(s, t) == Len(s) <= Len(t) /\ SubSeq(t, 1, Len(s)) = s

Stages == <<"extract", "transform", "csv", "connect", "load_to_db", "query", "done">>
Saved ==
    <<"Data extracted successfuly", "Data transformed successfuly",
      "Data loaded to CSV successfuly", "Database successfuly connected",
      "Data loaded to DB successfuly">>
Failed ==
    <<"Error while extracting data", "Error while transforming data",
      "Error while loading data to CSV", "Error while connecting to DB",
      "Error while loading data to DB">>

\* Tag.get_text(): the strings below a tag, joined
RECURSIVE TextOf(_)
TextOf(kids) ==
    IF kids = <<>> THEN <<>>
    ELSE (IF IsStr(Head(kids)) THEN Head(kids).text ELSE TextOf(Head(kids).contents))
         \o TextOf(Tail(kids))

\* the rows the inclusion rule names: a cell, a hyperlink in cell[0], and a
\* cell[2] whose text is not the placeholder
Eligible(col) ==
    /\ Len(col) >= 1
    /\ Find(col[1].contents, "a") # NoneNode
    /\ Len(col) >= GdpCell
    /\ TextOf(col[GdpCell].contents) # <<EmDash>>

Extracted == pc = "transform" /\ Last(log)[1] = Saved[1]
Transformed == pc = "csv" /\ Last(log)[1] = Saved[2]

\* C1: for every sequence of rows of the selected table, extract raises no
\* error and its dataset holds one record per row that has a cell, a hyperlink
\* in cell[0] and a cell[2] whose text is not the placeholder, and no other.
C1_Filter ==
    (pc = "transform" /\ webpage.status = "ok" /\ Len(webpage.tbodies) >= TargetTable)
    => /\ Last(log)[1] = Saved[1]
       /\ Len(heap[df].values) =
              Cardinality({i \in 1..Len(webpage.tbodies[TargetTable]) :
                              Eligible(webpage.tbodies[TargetTable][i])})

\* the hundredths nearest to n / 1000, ties to the even hundredth
HalfEven(n) ==
    (n \div 10) + (IF n % 10 > 5 \/ (n % 10 = 5 /\ (n \div 10) % 2 = 1) THEN 1 ELSE 0)

\* the GDP text transform was given, as a number of millions
Millions == NatOfDigits(RemoveCommas(webpage.tbodies[TargetTable][1][GdpCell].contents[1].text))
Hundredths == heap[df].values[1][2].f

\* C2 as stated: for every gdp_raw of digits and separators denoting n,
\* transform yields n / 1000 rounded to 2 decimals with ties to even.
C2_HalfEven == Transformed => Hundredths = HalfEven(Millions)

\* C2 as amended: transform yields a hundredth nearest to n / 1000 (within
\* 0.005): the half-to-even one unless n ends in 5, where binary floating
\* point decides between the two neighbours; "26,854,599" gives 26854.60 and
\* "0" gives 0.00.
C2_Nearest ==
    Transformed =>
        /\ 10 * Hundredths - Millions <= 5
        /\ Millions - 10 * Hundredths <= 5
        /\ Millions % 10 # 5 => Hundredths = HalfEven(Millions)
        /\ Millions = 26854599 => Hundredths = 2685460
        /\ Millions = 0 => Hundredths = 0

C2_Witness ==
    /\ Transformed
    /\ webpage.tbodies[TargetTable][1][GdpCell].contents[1].text = Big
    /\ Hundredths = 2685460

\* C3: in every run each of the stages extract, transform, CSV, connect, DB
\* ends, whether it failed or not, with exactly one line of its own appended to
\* the log, no exception leaving the cell, and the next stage of the fixed
\* order up next; a success line is written only when the stage took effect.
C3_Continue ==
    [][\A i \in 1..5 :
          pc = Stages[i] =>
             /\ pc' = Stages[i + 1]
             /\ Len(log') = Len(log) + 1
             /\ IsPrefix(log, log')
             /\ Last(log')[1] \in {Saved[i], Failed[i]}
             /\ (Last(log')[1] = Failed[i]) = (Last(log')[2] # "")
             /\ escaped' = ""
             /\ (i = 1 /\ Last(log')[1] = Saved[i]) => df' \notin {0, df}
             /\ (i = 1 /\ Last(log')[1] = Failed[i]) => df' = df
             /\ (i = 2 /\ Last(log')[1] = Saved[i]) => df' \notin {0, df}
             /\ (i = 3 /\ Last(log')[1] = Saved[i]) => csv'.exists
             /\ (i = 5 /\ Last(log')[1] = Saved[i]) => store'.table]_vars

\* all five stages failed in one run and the query stage is up
C3_Witness ==
    /\ pc = "query"
    /\ Len(log) >= 5
    /\ \A i \in 1..5 : log[Len(log) - 5 + i][1] = Failed[i]

\* C4: no exception of any stage leaves its cell, the query stage included.
C4_NoEscape == escaped = ""

\* C5: a load_to_db call that succeeds adds exactly the N records of its
\* dataset to the table, after the rows the table held, which stay as they
\* were (so k calls with the same dataset leave k * N rows).
C5_Append ==
    [][(pc = "load_to_db" /\ Last(log')[1] = Saved[5]) =>
          /\ Len(store'.rows) = Len(store.rows) + Len(heap[df].values)
          /\ IsPrefix(store.rows, store'.rows)]_vars

\* the same two records loaded twice: four rows, the second pair the first
C5_Witness ==
    /\ pc = "query"
    /\ Last(log)[1] = Saved[5]
    /\ Len(heap[df].values) = 2
    /\ Len(store.rows) = 4
    /\ SubSeq(store.rows, 1, 2) = SubSeq(store.rows, 3, 4)

PartialLoad ==
    pc = "load_to_db" /\ df # 0 /\ Last(log')[1] = Failed[5] /\ inserted' >= 1

\* C6 as stated: when an insert fails partway through the batch, the rows
\* inserted before the failing one are left in place in the table.
C6_LeftInPlace ==
    [][PartialLoad =>
          /\ IsPrefix(store.rows, store'.rows)
          /\ Len(store'.rows) = Len(store.rows) + inserted']_vars

\* C6 as amended: when an insert fails partway through the batch, no commit,
\* rollback or compensation follows; the rows the table held stay, and the
\* rows inserted before the failing one stay only on a non-transactional
\* engine: on a transactional one they were never committed and are gone.
C6_Uncommitted ==
    [][PartialLoad =>
          /\ IsPrefix(store.rows, store'.rows)
          /\ Len(store'.rows) =
                Len(store.rows) + (IF store.engine = "MyISAM" THEN inserted' ELSE 0)]_vars

C6_Witness ==
    /\ pc = "query"
    /\ Last(log)[1] = Failed[5]
    /\ inserted >= 1
    /\ store.engine = "InnoDB"
    /\ store.table
    /\ store.rows = <<>>

\* C7: load_to_db never drops or alters an existing table: its column list
\* stays, its rows stay (in place, in order), and when a column of the dataset
\* is not a column of the table no row is added and, if there is a record to
\* insert, the stage fails.
C7_Frame ==
    [][(pc = "load_to_db" /\ store.table) =>
          /\ store'.table
          /\ store'.columns = store.columns
          /\ IsPrefix(store.rows, store'.rows)
          /\ (df # 0 /\ \E c \in 1..Len(heap[df].columns) :
                           heap[df].columns[c] \notin ColumnNames(store.columns))
             => /\ store'.rows = store.rows
                /\ heap[df].values # <<>> => Last(log')[1] = Failed[5]]_vars

\* a table of the untransformed column met a transformed dataset, and kept
\* its rows and columns
C7_Witness ==
    /\ pc = "query"
    /\ Last(log) = <<Failed[5], "ProgrammingError">>
    /\ store.table
    /\ store.columns[3].name = "GDP_USD_millions"
    /\ store.rows # <<>>
    /\ df # 0
    /\ heap[df].columns[2] = "GDP_USD_billions"
    /\ heap[df].values # <<>>

Identity == [name |-> "id", type |-> "INT AUTO_INCREMENT PRIMARY KEY"]
Country == [name |-> "Country", type |-> "VARCHAR(255)"]

\* C8: the column list does not depend on what the dataset holds at run
\* time: for every dataset load_to_db is handed, the empty one included, it
\* is the identity column, the Country column of the text type and the GDP
\* column of the numeric type.
C8_Declared ==
    (pc = "load_to_db" /\ df # 0) =>
        /\ ColumnsSql(heap[df])[1] = Identity
        /\ ColumnsSql(heap[df])[2] = Country
        /\ ColumnsSql(heap[df])[3].type = "FLOAT"

\* C9: every record extract outputs has a non-empty country and a gdp_raw
\* made only of digits and grouping separators.
C9_Records ==
    Extracted =>
        \A i \in 1..Len(heap[df].values) :
            /\ IsStr(heap[df].values[i][1].obj)
            /\ heap[df].values[i][1].obj.text # <<>>
            /\ IsStr(heap[df].values[i][2].obj)
            /\ heap[df].values[i][2].obj.text # <<>>
            /\ \A k \in 1..Len(heap[df].values[i][2].obj.text) :
                  heap[df].values[i][2].obj.text[k] \in DigitChars \cup {","}

\* C10: transform does not mutate the dataset it is handed: after it returns,
\* the object passed still holds its raw GDP strings and the result is another
\* object.
C10_NoMutation ==
    [][(pc = "transform" /\ df # 0 /\ Last(log')[1] = Saved[2]) =>
          /\ df' # df
          /\ heap'[df] = heap[df]]_vars

\* the rows of the selected table the inclusion rule names, in document order
Kept == SelectSeq(webpage.tbodies[TargetTable], Eligible)

\* C11: when extract and then transform return, the dataset is the eligible
\* rows of the document in document order, one record for each and none for
\* any other row, duplicates of a country kept, each with the text of its
\* link and its estimate divided by 1000 (to the nearest hundredth).
C11_Order ==
    Transformed =>
        /\ Len(heap[df].values) = Len(Kept)
        /\ \A i \in 1..Len(Kept) :
              /\ heap[df].values[i][1].obj.text = TextOf(Kept[i][1].contents)
              /\ 10 * heap[df].values[i][2].f
                    - NatOfDigits(RemoveCommas(TextOf(Kept[i][GdpCell].contents))) \in -5..5

\* three rows, the placeholder in the second: two records, B before A
C11_Witness ==
    /\ Transformed
    /\ webpage.tbodies[TargetTable] =
          <<GdpRow(<<"B">>, Str(Tie)), GdpRow(<<"A">>, Str(<<EmDash>>)),
            GdpRow(<<"A">>, Str(Plain))>>
    /\ Len(heap[df].values) = 2
    /\ heap[df].values[1][1].obj.text = <<"B">>
    /\ heap[df].values[1][2].f = 55
    /\ heap[df].values[2][1].obj.text = <<"A">>
    /\ heap[df].values[2][2].f = 150

\* the document has fewer table bodies than extract selects, or the selected
\* one holds no row
Unparsable ==
    \/ Len(webpage.tbodies) < TargetTable
    \/ webpage.tbodies[TargetTable] = <<>>

\* C12: whenever the document has fewer than three table bodies or the third
\* has no row, the extract stage fails: its error line is logged, no success
\* line, and no dataset is bound.
C12_ParseError ==
    (pc = "transform" /\ webpage.status = "ok" /\ Unparsable)
    => (Last(log)[1] = Failed[1] /\ df = 0)

WroteCsv == pc = "connect" /\ Last(log)[1] = Saved[3]

\* C13: after load_to_csv of a dataset the file holds that dataset and nothing
\* else, whatever it held before: a header of the empty index name and the
\* column names in order, then one line per record, in order, of the record's
\* zero-based position and its fields; so the same dataset written twice
\* leaves the same content.
C13_Overwrite ==
    WroteCsv =>
        /\ csv.exists
        /\ csv.header = <<"">> \o heap[df].columns
        /\ Len(csv.lines) = Len(heap[df].values)
        /\ \A i \in 1..Len(csv.lines) :
              csv.lines[i] = <<NatDigits(i - 1), Field(heap[df].values[i][1]),
                               Field(heap[df].values[i][2])>>

\* the file of a run whose transform failed (raw strings, the millions
\* header) was written again by a run over the two-estimate document
C13_Witness ==
    /\ WroteCsv
    /\ run = 2
    /\ log[2] = <<Failed[2], "ValueError">>
    /\ log[3][1] = Saved[3]
    /\ csv.header = <<"", "Country", "GDP_USD_billions">>
    /\ csv.lines = << <<(<<"0">>), (<<"A">>), <<"2", "6", "8", "5", "4", ".", "6">> >>,
                      <<(<<"1">>), (<<"B">>), <<"0", ".", "5", "5">> >> >>

\* C14: a transform stage that fails (an estimate that is no decimal, no
\* millions column left, or no dataset bound) leaves the name df and every
\* dataset object as they were; the CSV, connect and DB stages change neither,
\* and a CSV or DB stage that succeeds writes the dataset df names: the file
\* is that dataset's lines, the rows added are that dataset's records.
C14_Unchanged ==
    [][/\ (pc = "transform" /\ Last(log')[1] = Failed[2]) => (df' = df /\ heap' = heap)
       /\ pc \in {"csv", "connect", "load_to_db"} => (df' = df /\ heap' = heap)
       /\ (pc = "csv" /\ Last(log')[1] = Saved[3]) => csv' = to_csv(heap[df])
       /\ (pc = "load_to_db" /\ Last(log')[1] = Saved[5]) =>
             SubSeq(store'.rows, Len(store.rows) + 1, Len(store'.rows)) =
                [i \in 1..Len(heap[df].values) |->
                    StoredRow(heap[df], heap[df].values[i], store'.columns)]]_vars

\* a run whose transform failed on the second estimate: the file and the
\* table hold the two records as extract left them
C14_Witness ==
    /\ pc = "query"
    /\ run = 1
    /\ log[2] = <<Failed[2], "ValueError">>
    /\ log[3][1] = Saved[3]
    /\ log[5][1] = Saved[5]
    /\ heap[df].columns = TABLE_ATTRIBS
    /\ heap[df].values[1][2] = Obj(Str(Plain))
    /\ csv.header = <<"", "Country", "GDP_USD_millions">>
    /\ csv.lines[1] = <<(<<"0">>), (<<"A">>), Plain>>
    /\ Len(store.rows) = 2
    /\ store.columns[3].name = "GDP_USD_millions"

====
